---- MODULE Spec2Model ----
(***************************************************************************)
(* Task hierarchy of the team task manager backend: the Todo collection,   *)
(* the role-scoped controllers createTask / getTasks / getTaskById /       *)
(* updateTask / deleteTask (controllers/todoController.js) and the         *)
(* cascade-delete hook of the Todo schema (todoSchema.pre                  *)
(* ('findOneAndDelete'), in routes/scheduleRoutes.js lines 53-144).        *)
(*                                                                         *)
(* In Spec every request is one atomic action (the sequential,             *)
(* non-interleaved reading of the handlers); SpecDeleteRace and            *)
(* SpecUpdateRace run deleteTask and updateTask one store call at a time,  *)
(* SpecAuth adds the accounts and sessions of authController.js.           *)
(* The requester is the user document that the                             *)
(* auth middleware attached to the request.  The ObjectIds of new          *)
(* documents are fresh: a request names only ids the server has handed     *)
(* out, in a body made of the fields createTask and updateTask document.   *)
(***************************************************************************)
EXTENDS Integers, Sequences, FiniteSets, TLC

VARIABLES store, nextId, last, teams, teamOf, calls, users, now

vars == <<store, nextId, last, teams, teamOf, calls, users, now>>
\* What the task controllers of one atomic request leave alone: the teams,
\* the team column of the Todo collection, the requests in flight, the
\* users collection and the clock.
others == <<teams, teamOf, calls, users, now>>

(***************************************************************************)
(* Bounds                                                                  *)
(***************************************************************************)
\* Number of Todo documents ever inserted (ObjectIds 1..MaxTasks).
MaxTasks == 3

(***************************************************************************)
(* Values                                                                  *)
(***************************************************************************)
Null == "null"            \* JS null: a user reference that resolves to nothing
Absent == "absent"        \* JS undefined: the key is not in the object
NoKey == "nokey"          \* a query filter that does not mention the path
NullId == 0               \* a null / missing Todo reference

TaskIds == 1..MaxTasks

\* The ids of the Team collection (teamId in the URL, team in a Todo).
TeamIds == {1, 2}

\* The users collection: one administrator and two regular users
\* (userSchema.role, enum ['User','Admin']).
Role == [a |-> "Admin", u |-> "User", v |-> "User"]
UserIds == DOMAIN Role
\* A well-formed ObjectId that is the _id of no user.
GhostUser == "g"

\* const isAdmin = (user) => user && user.role === 'Admin';
isAdmin(user) == user \in UserIds /\ Role[user] = "Admin"

(***************************************************************************)
(* ObjectIds on the wire.  A request names an ObjectId by a 24-digit hex   *)
(* string; the driver accepts either letter case and ObjectId.toString()   *)
(* always prints lower case.  A reference in a request body is the pair    *)
(* of the id it denotes and the spelling used; null and undefined are the  *)
(* two references that denote no id.                                       *)
(***************************************************************************)
Spellings == {"lower", "upper"}
HexRef(oid, sp) == [oid |-> oid, hex |-> sp]
NullRef == HexRef(NullId, Null)
AbsentRef == HexRef(NullId, Absent)

\* ObjectId.prototype.toString(): the canonical (lower-case) spelling.
ObjectIdToString(oid) == HexRef(oid, "lower")
\* String.prototype.toString(): the string itself.
StringToString(ref) == ref
\* Mongoose casting of a request string to an ObjectId (case-insensitive).
CastObjectId(ref) == ref.oid
\* JS truthiness of a body field that is undefined, null or a non-empty string.
TruthyRef(ref) == ref.hex \in Spellings
Truthy(x) == x \notin {Null, Absent}

(***************************************************************************)
(* The Todo collection: store[id] is the document with _id = id or NoTask. *)
(* A document keeps owner and parentTask (a missing parentTask is NullId). *)
(* Ids are handed out in increasing order and never reused; createdAt      *)
(* increases with the id.                                                  *)
(***************************************************************************)
Doc(owner, parent) == [owner |-> owner, parentTask |-> parent]
NoTask == Doc("notask", NullId)

Exists(st, id) == id \in TaskIds /\ st[id] # NoTask

\* Todo.findById(id) / User.findById(id)
TodoFindById(st, id) == IF Exists(st, id) THEN id ELSE NullId
UserFindById(ref) == IF ref \in UserIds THEN ref ELSE Null

\* A filter value against a stored owner.  An undefined filter value is
\* sent to the database as null (the driver does not drop undefined keys),
\* and null matches only a null or missing field.
OwnerMatches(owner, f) ==
    IF f = NoKey THEN TRUE
    ELSE IF f = Absent THEN owner = Null
    ELSE owner = f

\* TodoFindOne without the owner condition.
TodoFindOne_AnyOwner(st, id, f) == IF Exists(st, id) THEN id ELSE NullId

\* Todo.findOne({_id, owner}) -- the id of the match or NullId.
TodoFindOne(st, id, f) ==
    IF Exists(st, id) /\ OwnerMatches(st[id].owner, f) THEN id ELSE NullId

\* .populate('owner', ...).populate('parentTask', 'text'): a reference whose
\* target is gone is populated as null.
Populate(st, id) ==
    [_id |-> id,
     owner |-> UserFindById(st[id].owner),
     parentTask |-> TodoFindById(st, st[id].parentTask)]

\* The raw document as findOneAndDelete returns it.
RawDoc(st, id) == [_id |-> id, owner |-> st[id].owner, parentTask |-> st[id].parentTask]
NoBody == [_id |-> NullId, owner |-> Null, parentTask |-> NullId]

Response(kind, body, st, nid) ==
    [kind |-> kind, body |-> body, store |-> st, nextId |-> nid]

(***************************************************************************)
(* createTask                                                              *)
(***************************************************************************)
\* createTask taking the owner from the body whoever the creator is.
createTask_TrustsBody(st, nid, creator, body) ==
    LET assignedUser == UserFindById(body.owner)
        ownerId == IF Truthy(body.owner) THEN assignedUser ELSE creator
        st2 == [st EXCEPT ![nid] = Doc(ownerId, CastObjectId(body.parentTask))]
    IN  IF Truthy(body.owner) /\ assignedUser = Null
          THEN Response("InvalidOwner", NoBody, st, nid)
        ELSE IF ~body.text
          THEN Response("ValidationError", NoBody, st, nid)
        ELSE Response("Created", Populate(st2, nid), st2, nid + 1)

createTask(st, nid, creator, body) ==
    LET adminAssigns == isAdmin(creator) /\ Truthy(body.owner)
        assignedUser == UserFindById(body.owner)
        ownerId == IF adminAssigns THEN assignedUser ELSE creator
        st2 == [st EXCEPT ![nid] = Doc(ownerId, CastObjectId(body.parentTask))]
    IN  IF adminAssigns /\ assignedUser = Null
          THEN Response("InvalidOwner", NoBody, st, nid)
        ELSE IF ~body.text
          THEN Response("ValidationError", NoBody, st, nid)
        ELSE Response("Created", Populate(st2, nid), st2, nid + 1)

(***************************************************************************)
(* getTasks / getTaskById                                                  *)
(***************************************************************************)
\* Todo.find(filter): the ids of the matching documents.
TodoFind(st, f) == {id \in TaskIds : Exists(st, id) /\ OwnerMatches(st[id].owner, f)}

\* .sort({ createdAt: 1 }): the sort without the parentTask key.
SortKey_CreatedAtOnly(st, id) == <<NullId, id>>

\* .sort({ parentTask: 1, createdAt: 1 }): null sorts before every ObjectId,
\* ObjectIds by value, createdAt by insertion.
SortKey(st, id) == <<st[id].parentTask, id>>
KeyLess(k1, k2) == k1[1] < k2[1] \/ (k1[1] = k2[1] /\ k1[2] < k2[2])

RECURSIVE SortIds(_, _)
SortIds(st, ids) ==
    IF ids = {} THEN <<>>
    ELSE LET first == CHOOSE i \in ids :
                         \A j \in ids \ {i} : KeyLess(SortKey(st, i), SortKey(st, j))
         IN  <<first>> \o SortIds(st, ids \ {first})

\* getTasks with the administrator's query for every requester.
getTasks_Unfiltered(st, requester) ==
    LET sorted == SortIds(st, TodoFind(st, NoKey))
    IN  [i \in 1..Len(sorted) |-> Populate(st, sorted[i])]

\* The list sent back: the populated documents, sorted.
getTasks(st, requester) ==
    LET ids == IF isAdmin(requester) THEN TodoFind(st, NoKey)
               ELSE TodoFind(st, requester)
        sorted == SortIds(st, ids)
    IN  [i \in 1..Len(sorted) |-> Populate(st, sorted[i])]

getTaskById(st, nid, requester, id) ==
    LET task == IF isAdmin(requester) THEN TodoFindById(st, id)
                ELSE TodoFindOne(st, id, requester)
    IN  IF task = NullId THEN Response("NotFound", NoBody, st, nid)
        ELSE Response("Ok", Populate(st, task), st, nid)

(***************************************************************************)
(* updateTask                                                              *)
(***************************************************************************)
allowedUpdates == {"text", "completed", "dueDate", "tag", "parentTask", "owner"}

\* Object.keys(req.body)
Keys(body) ==
    (IF body.parentTask = AbsentRef THEN {} ELSE {"parentTask"})
      \cup (IF body.owner = Absent THEN {} ELSE {"owner"})
      \cup (IF body.notAField THEN {"notAField"} ELSE {})

\* isValidOperation with updates.some(...) in place of updates.every(...).
isValidOperation_Some(updates) ==
    updates = {} \/ \E update \in updates : update \in allowedUpdates

isValidOperation(updates) == \A update \in updates : update \in allowedUpdates

\* The walk that looks at the proposed parent alone and not above it.
WalkUp_DirectOnly(st, current, task, seen) ==
    IF current = NullId THEN "accept"
    ELSE IF ObjectIdToString(current) = ObjectIdToString(task) THEN "cycle"
    ELSE "accept"

\* The walk that rejects every proposed parent that has a parent itself.
WalkUp_RejectsNested(st, current, task, seen) ==
    IF current = NullId THEN "accept"
    ELSE IF ObjectIdToString(current) = ObjectIdToString(task) THEN "cycle"
    ELSE IF st[current].parentTask # NullId THEN "cycle"
    ELSE "accept"

\* The while(current) loop: from the proposed parent upward.  The loop has
\* no bound; on a chain that closes on itself without meeting the task it
\* never ends ("diverge").
RECURSIVE WalkUp(_, _, _, _)
WalkUp(st, current, task, seen) ==
    IF current = NullId THEN "accept"
    ELSE IF ObjectIdToString(current) = ObjectIdToString(task) THEN "cycle"
    ELSE IF current \in seen THEN "diverge"
    ELSE WalkUp(st,
                IF st[current].parentTask # NullId
                  THEN TodoFindById(st, st[current].parentTask) ELSE NullId,
                task, seen \cup {current})

\* updates.forEach(...) without the test on the requester's role.
ApplyUpdates_AnyRequester(doc, requester, body) ==
    LET d1 == IF "parentTask" \in Keys(body)
                THEN [doc EXCEPT !.parentTask = CastObjectId(body.parentTask)] ELSE doc
    IN  IF "owner" \in Keys(body) THEN [d1 EXCEPT !.owner = body.owner] ELSE d1

\* updates.forEach(...): owner is skipped for a non-admin.
ApplyUpdates(doc, requester, body) ==
    LET d1 == IF "parentTask" \in Keys(body)
                THEN [doc EXCEPT !.parentTask = CastObjectId(body.parentTask)] ELSE doc
    IN  IF "owner" \in Keys(body) /\ isAdmin(requester)
          THEN [d1 EXCEPT !.owner = body.owner] ELSE d1

\* updateTask with the fields applied and saved ahead of the parent checks.
updateTask_SavesBeforeChecks(st, nid, requester, id, body) ==
    LET task == IF isAdmin(requester) THEN TodoFindById(st, id)
                ELSE TodoFindOne(st, id, requester)
        walk == WalkUp(st, TodoFindById(st, CastObjectId(body.parentTask)), task, {})
        st2 == [st EXCEPT ![task] = ApplyUpdates(st[task], requester, body)]
    IN  IF ~isValidOperation(Keys(body))
          THEN Response("InvalidUpdate", NoBody, st, nid)
        ELSE IF task = NullId
          THEN Response("NotFound", NoBody, st, nid)
        ELSE IF TruthyRef(body.parentTask)
                /\ StringToString(body.parentTask) = ObjectIdToString(task)
          THEN Response("SelfParentError", NoBody, st2, nid)
        ELSE IF TruthyRef(body.parentTask) /\ walk = "cycle"
          THEN Response("CycleError", NoBody, st2, nid)
        ELSE IF TruthyRef(body.parentTask) /\ walk = "diverge"
          THEN Response("NoResponse", NoBody, st, nid)
        ELSE Response("Ok", Populate(st2, task), st2, nid)

updateTask(st, nid, requester, id, body) ==
    LET task == IF isAdmin(requester) THEN TodoFindById(st, id)
                ELSE TodoFindOne(st, id, requester)
        walk == WalkUp(st, TodoFindById(st, CastObjectId(body.parentTask)), task, {})
        st2 == [st EXCEPT ![task] = ApplyUpdates(st[task], requester, body)]
    IN  IF ~isValidOperation(Keys(body))
          THEN Response("InvalidUpdate", NoBody, st, nid)
        ELSE IF task = NullId
          THEN Response("NotFound", NoBody, st, nid)
        ELSE IF TruthyRef(body.parentTask)
                /\ StringToString(body.parentTask) = ObjectIdToString(task)
          THEN Response("SelfParentError", NoBody, st, nid)
        ELSE IF TruthyRef(body.parentTask) /\ walk = "cycle"
          THEN Response("CycleError", NoBody, st, nid)
        ELSE IF TruthyRef(body.parentTask) /\ walk = "diverge"
          THEN Response("NoResponse", NoBody, st, nid)
        ELSE Response("Ok", Populate(st2, task), st2, nid)

(***************************************************************************)
(* deleteTask and the pre('findOneAndDelete') hook                         *)
(***************************************************************************)
Filter(id, owner) == [_id |-> id, owner |-> owner]
\* query.owner: undefined when the filter has no owner key.
QueryOwner(f) == IF f.owner = NoKey THEN Absent ELSE f.owner

\* find({ parentTask: taskIdToDelete, owner: query.owner })
ChildTasks(st, id, owner) ==
    {c \in TaskIds : Exists(st, c) /\ st[c].parentTask = id
                       /\ OwnerMatches(st[c].owner, owner)}

\* The outcome of a store call: the collection after it, the document it
\* returned, and how it ended ("done", "error" when it threw, "hang" when
\* it never returns).
Deleted(st, doc, end) == [store |-> st, doc |-> doc, end |-> end]

\* A store failure: the call for the document id that throws ("find": the
\* hook's Todo.find; "remove": the removal itself), or none.
Fault(id, stage) == [id |-> id, stage |-> stage]
NoFault == Fault(NullId, "none")

\* Model.findOneAndDelete(filter): the hook first (the children found, each
\* through findOneAndDelete again), then the removal of the document that
\* matches the filter, if any.  An error thrown inside the hook reaches
\* next(e): the removal is not run and the call rejects.  path holds the
\* ids whose hook is running: a hook entered again for one of them never
\* returns.
RECURSIVE findOneAndDelete(_, _, _, _), DeleteEach(_, _, _, _, _)

\* findOneAndDelete whose hook logs an error of the cascade and goes on to
\* the removal (next() in the catch block).
findOneAndDelete_SwallowsError(st, f, path, fault) ==
    IF f._id \in path THEN Deleted(st, NullId, "hang")
    ELSE LET owner == QueryOwner(f)
             r == DeleteEach(st, ChildTasks(st, f._id, owner), owner,
                             path \cup {f._id}, fault)
             found == TodoFindOne(r.store, f._id, f.owner)
         IN  IF r.end = "hang" THEN r
             ELSE IF fault = Fault(f._id, "remove") THEN Deleted(r.store, NullId, "error")
             ELSE IF found = NullId THEN Deleted(r.store, NullId, "done")
             ELSE Deleted([r.store EXCEPT ![found] = NoTask], found, "done")

findOneAndDelete(st, f, path, fault) ==
    IF f._id \in path THEN Deleted(st, NullId, "hang")
    ELSE IF fault = Fault(f._id, "find") THEN Deleted(st, NullId, "error")
    ELSE LET owner == QueryOwner(f)
             r == DeleteEach(st, ChildTasks(st, f._id, owner), owner,
                             path \cup {f._id}, fault)
             found == TodoFindOne(r.store, f._id, f.owner)
         IN  IF r.end # "done" THEN r
             ELSE IF fault = Fault(f._id, "remove") THEN Deleted(r.store, NullId, "error")
             ELSE IF found = NullId THEN Deleted(r.store, NullId, "done")
             ELSE Deleted([r.store EXCEPT ![found] = NoTask], found, "done")

\* The children removed directly, their own hooks not run.
DeleteEach_OneLevel(st, childTasks, owner, path, fault) ==
    Deleted([i \in TaskIds |-> IF i \in childTasks THEN NoTask ELSE st[i]], NullId, "done")

\* for (const child of childTasks) await findOneAndDelete({_id, owner})
DeleteEach(st, childTasks, owner, path, fault) ==
    IF childTasks = {} THEN Deleted(st, NullId, "done")
    ELSE LET child == CHOOSE c \in childTasks : \A d \in childTasks : c <= d
             r == findOneAndDelete(st, Filter(child, owner), path, fault)
         IN  IF r.end # "done" THEN r
             ELSE DeleteEach(r.store, childTasks \ {child}, owner, path, fault)

\* deleteTask without the 404 branch: the null result is sent with 200.
deleteTaskOn_SendsNull(st, nid, requester, id, fault) ==
    LET f == IF isAdmin(requester) THEN Filter(id, NoKey) ELSE Filter(id, requester)
        r == findOneAndDelete(st, f, {}, fault)
    IN  IF r.end = "hang" THEN Response("NoResponse", NoBody, r.store, nid)
        ELSE IF r.end = "error" THEN Response("ServerError", NoBody, r.store, nid)
        ELSE IF r.doc = NullId THEN Response("Ok", NoBody, r.store, nid)
        ELSE Response("Ok", RawDoc(st, r.doc), r.store, nid)

\* deleteTask over a store that fails as fault says; the catch answers 500.
deleteTaskOn(st, nid, requester, id, fault) ==
    LET f == IF isAdmin(requester) THEN Filter(id, NoKey) ELSE Filter(id, requester)
        r == findOneAndDelete(st, f, {}, fault)
    IN  IF r.end = "hang" THEN Response("NoResponse", NoBody, r.store, nid)
        ELSE IF r.end = "error" THEN Response("ServerError", NoBody, r.store, nid)
        ELSE IF r.doc = NullId THEN Response("NotFound", NoBody, r.store, nid)
        ELSE Response("Ok", RawDoc(st, r.doc), r.store, nid)

\* deleteTask when no store call fails.
deleteTask(st, nid, requester, id) == deleteTaskOn(st, nid, requester, id, NoFault)

(***************************************************************************)
(* The state machine                                                       *)
(***************************************************************************)
TypeOK ==
    /\ nextId \in 1..(MaxTasks + 1)
    /\ \A id \in TaskIds : id >= nextId => store[id] = NoTask
    /\ \A id \in TaskIds : Exists(store, id) =>
          store[id].owner \in UserIds \cup {GhostUser} /\ store[id].parentTask \in 0..MaxTasks

\* What the last request was and how it ended: the operation, the requester,
\* the id in the URL (the new id for a create), the kind of response and
\* the ids the request removed.
Last(op, who, id, kind, st, st2) ==
    [op |-> op, who |-> who, id |-> id, kind |-> kind,
     removed |-> {i \in TaskIds : Exists(st, i) /\ ~Exists(st2, i)}]

\* No team, no request in flight, the users of Role, the clock at 0.
NoTeam == {"noteam"}
NoUser == [role |-> "nouser", tokens |-> <<>>]
InitOthers ==
    /\ teams = [t \in TeamIds |-> NoTeam]
    /\ teamOf = [id \in TaskIds |-> NullId]
    /\ calls = {}
    /\ users = [x \in UserIds |-> [role |-> Role[x], tokens |-> <<>>]]
    /\ now = 0

Init ==
    /\ store = [id \in TaskIds |-> NoTask]
    /\ nextId = 1
    /\ last = Last("none", Null, NullId, "none", store, store)
    /\ InitOthers

\* The ids a client can name: those the server has handed out.
Issued == 1..(nextId - 1)
LowerRefs == {NullRef} \cup {HexRef(i, "lower") : i \in Issued}
OtherUsers == {"u", "v"}

\* Request bodies of POST /tasks: with a text, any parent (the handler only
\* casts it, so one spelling) and any owner; and one without the text.
CreateBodies ==
    [text : {TRUE}, parentTask : {AbsentRef} \cup LowerRefs,
     owner : {Absent, GhostUser} \cup OtherUsers]
      \cup {[text |-> FALSE, parentTask |-> AbsentRef, owner |-> Absent]}

\* Request bodies of PATCH /tasks/:id: the empty body; a parent (null, an
\* issued id, or the id of the URL written in upper case); the same with an
\* owner; and bodies with a key outside allowedUpdates.
UpdateBodies(id) ==
    [parentTask : {AbsentRef, HexRef(id, "upper")} \cup LowerRefs,
     owner : {Absent}, notAField : {FALSE}]
      \cup [parentTask : {AbsentRef} \cup LowerRefs, owner : {"v"}, notAField : {FALSE}]
      \cup [parentTask : {AbsentRef, NullRef}, owner : {"v"}, notAField : {TRUE}]

CreateTask ==
    \E creator \in UserIds, body \in CreateBodies :
        /\ nextId <= MaxTasks
        /\ LET r == createTask(store, nextId, creator, body)
           IN  /\ store' = r.store
               /\ nextId' = r.nextId
               /\ last' = Last("create", creator, nextId, r.kind, store, r.store)
               /\ UNCHANGED others

GetTasks ==
    \E requester \in UserIds :
        /\ last' = Last("list", requester, NullId, "Ok", store, store)
        /\ UNCHANGED <<store, nextId>>
        /\ UNCHANGED others

GetTaskById ==
    \E requester \in UserIds, id \in TaskIds :
        LET r == getTaskById(store, nextId, requester, id)
        IN  /\ last' = Last("get", requester, id, r.kind, store, store)
            /\ UNCHANGED <<store, nextId>>
            /\ UNCHANGED others

UpdateTask ==
    \E requester \in UserIds, id \in TaskIds : \E body \in UpdateBodies(id) :
        LET r == updateTask(store, nextId, requester, id, body)
        IN  /\ store' = r.store
            /\ nextId' = r.nextId
            /\ last' = Last("update", requester, id, r.kind, store, r.store)
            /\ UNCHANGED others

DeleteTask ==
    \E requester \in UserIds, id \in TaskIds :
        LET r == deleteTask(store, nextId, requester, id)
        IN  /\ store' = r.store
            /\ nextId' = r.nextId
            /\ last' = Last("delete", requester, id, r.kind, store, r.store)
            /\ UNCHANGED others

Next ==
    \/ CreateTask
    \/ GetTasks
    \/ GetTaskById
    \/ UpdateTask
    \/ DeleteTask

Spec == Init /\ [][Next]_vars

(***************************************************************************)
(* The controllers over a collection in any state.  The schema puts no     *)
(* constraint on parentTask beyond its type, so the collection can hold    *)
(* documents whose parentTask pointers close a cycle or name no document   *)
(* (left by interleaved updates or by writes made outside the              *)
(* controllers).  All ObjectIds have been handed out.                      *)
(***************************************************************************)
AnyStores ==
    [TaskIds -> {NoTask} \cup {Doc(o, p) : o \in OtherUsers, p \in 0..MaxTasks}]

InitCorrupt ==
    /\ store \in AnyStores
    /\ nextId = MaxTasks + 1
    /\ last = Last("none", Null, NullId, "none", store, store)
    /\ InitOthers

NextCorrupt ==
    \/ UpdateTask
    \/ DeleteTask

SpecCorrupt == InitCorrupt /\ [][NextCorrupt]_vars

(***************************************************************************)
(* The controllers over a store whose calls can fail: a delete request     *)
(* during which one store call of the cascade throws.                      *)
(***************************************************************************)
Stages == {"find", "remove"}

DeleteTaskFault ==
    \E requester \in UserIds, id \in TaskIds, d \in TaskIds, stage \in Stages :
        LET r == deleteTaskOn(store, nextId, requester, id, Fault(d, stage))
        IN  /\ r.kind = "ServerError"
            /\ store' = r.store
            /\ nextId' = r.nextId
            /\ last' = Last("delete", requester, id, r.kind, store, r.store)
            /\ UNCHANGED others

NextFault ==
    \/ CreateTask
    \/ DeleteTask
    \/ DeleteTaskFault

SpecFault == Init /\ [][NextFault]_vars

(***************************************************************************)
(* The controllers under update requests whose body names an owner: every  *)
(* update of this specification carries the owner key, next to a           *)
(* parentTask or alone.                                                    *)
(***************************************************************************)
OwnerBodies ==
    [parentTask : {AbsentRef} \cup LowerRefs, owner : {"v", GhostUser}, notAField : {FALSE}]

UpdateTaskOwner ==
    \E requester \in UserIds, id \in TaskIds, body \in OwnerBodies :
        LET r == updateTask(store, nextId, requester, id, body)
        IN  /\ store' = r.store
            /\ nextId' = r.nextId
            /\ last' = Last("update", requester, id, r.kind, store, r.store)
            /\ UNCHANGED others

NextOwner ==
    \/ CreateTask
    \/ UpdateTaskOwner
    \/ DeleteTask

SpecOwner == Init /\ [][NextOwner]_vars

(***************************************************************************)
(* getTasksForTeam over the Team collection.  teams[t] is the member set   *)
(* of team t or NoTeam; teamOf[id] is the team field of Todo id (NullId    *)
(* when it has none), which createTask copies from the body.               *)
(***************************************************************************)
\* Team.findById(teamId)
TeamFindById(tms, teamId) == IF teamId \in TeamIds THEN tms[teamId] ELSE NoTeam

\* Todo.find({ $or: [{ team: teamId }, { owner: { $in: team.members } }] })
TodoFindForTeam(st, tof, teamId, members) ==
    {id \in TaskIds : Exists(st, id) /\ (tof[id] = teamId \/ st[id].owner \in members)}

TeamResponse(kind, list) == [kind |-> kind, list |-> list]

\* getTasksForTeam without the membership test.
getTasksForTeam_NoMembershipTest(st, tof, tms, requester, teamId) ==
    LET team == TeamFindById(tms, teamId)
        sorted == SortIds(st, TodoFindForTeam(st, tof, teamId, team))
    IN  IF team = NoTeam THEN TeamResponse("TeamNotFound", <<>>)
        ELSE TeamResponse("Ok", [i \in 1..Len(sorted) |-> Populate(st, sorted[i])])

getTasksForTeam(st, tof, tms, requester, teamId) ==
    LET team == TeamFindById(tms, teamId)
        sorted == SortIds(st, TodoFindForTeam(st, tof, teamId, team))
    IN  IF team = NoTeam THEN TeamResponse("TeamNotFound", <<>>)
        ELSE IF ~isAdmin(requester) /\ requester \notin team
          THEN TeamResponse("Forbidden", <<>>)
        ELSE TeamResponse("Ok", [i \in 1..Len(sorted) |-> Populate(st, sorted[i])])

\* The teams of a run: team 1 with u or with u and v, team 2 missing or
\* with v alone.
TeamCollections ==
    {[t \in TeamIds |-> IF t = 1 THEN m1 ELSE m2] :
       m1 \in {{"u"}, {"u", "v"}}, m2 \in {NoTeam, {"v"}}}

InitTeam ==
    /\ store = [id \in TaskIds |-> NoTask]
    /\ nextId = 1
    /\ last = Last("none", Null, NullId, "none", store, store)
    /\ teams \in TeamCollections
    /\ teamOf = [id \in TaskIds |-> NullId]
    /\ calls = {}
    /\ users = [x \in UserIds |-> [role |-> Role[x], tokens |-> <<>>]]
    /\ now = 0

\* POST /tasks with a text and, or not, a team.
CreateTeamTask ==
    \E creator \in UserIds, team \in TeamIds \cup {NullId} :
        /\ nextId <= MaxTasks
        /\ LET body == [text |-> TRUE, parentTask |-> AbsentRef, owner |-> Absent]
               r == createTask(store, nextId, creator, body)
           IN  /\ store' = r.store
               /\ nextId' = r.nextId
               /\ teamOf' = [teamOf EXCEPT ![nextId] = team]
               /\ last' = Last("create", creator, nextId, r.kind, store, r.store)
        /\ UNCHANGED <<teams, calls, users, now>>

GetTasksForTeam ==
    \E requester \in UserIds, teamId \in TeamIds :
        LET r == getTasksForTeam(store, teamOf, teams, requester, teamId)
        IN  /\ last' = Last("teamlist", requester, teamId, r.kind, store, store)
            /\ UNCHANGED <<store, nextId, others>>

NextTeam ==
    \/ CreateTeamTask
    \/ GetTasksForTeam

SpecTeam == InitTeam /\ [][NextTeam]_vars

(***************************************************************************)
(* Accounts and sessions: the User model (models/User.js), the protect     *)
(* middleware (middleware/authMiddleware.js) and the controllers of        *)
(* controllers/authController.js.  A JSON web token is the triple the      *)
(* server signs: the user id, the role and the issue time in seconds       *)
(* (jwt.sign adds iat and, no option being passed, nothing else), so two   *)
(* tokens signed for one user within one second are the same string.       *)
(***************************************************************************)
\* Seconds the clock can advance, and session entries the users can hold.
MaxClock == 1
MaxSessions == 2

\* The ObjectIds of the users inserted during a run, beside those of Role.
NewUsers == {"w"}
Accounts == UserIds \cup NewUsers
Roles == {"User", "Admin"}
\* A user document that was deleted: its ObjectId is never handed out again.
GoneUser == [role |-> "gone", tokens |-> <<>>]
UsersAtStart == [x \in Accounts |-> IF x \in UserIds
                                    THEN [role |-> Role[x], tokens |-> <<>>]
                                    ELSE NoUser]

UserExists(us, x) == x \in Accounts /\ us[x].role \in Roles
\* const isAdmin = (user) => user && user.role === 'Admin';  (authController)
authIsAdmin(us, x) == UserExists(us, x) /\ us[x].role = "Admin"
Range(s) == {s[i] : i \in DOMAIN s}

\* jwt.sign({_id, role}, secret) at second iat, and jwt.verify: the
\* signature must be the server's; a token carries no expiry.
jwtSign(id, role, iat) == [id |-> id, role |-> role, iat |-> iat, sig |-> "server"]
jwtVerify(token) == token.sig = "server"
\* No Authorization header, and a token signed with another secret.
NoToken == [id |-> Null, role |-> Null, iat |-> 0, sig |-> "none"]
ForgedToken == [id |-> "a", role |-> "Admin", iat |-> 0, sig |-> "other"]

\* userSchema.methods.generateAuthToken
generateAuthToken(us, x, t) ==
    LET token == jwtSign(x, us[x].role, t)
    IN  [users |-> [us EXCEPT ![x].tokens = Append(@, token)], token |-> token]

\* protect: the request (req.user, req.token) or the 401.
NoSession == [kind |-> "Unauthorized", user |-> Null, token |-> NoToken]
protect(us, token) ==
    IF token = NoToken \/ ~jwtVerify(token) THEN NoSession
    ELSE IF UserExists(us, token.id) /\ token \in Range(us[token.id].tokens)
         THEN [kind |-> "Ok", user |-> token.id, token |-> token]
         ELSE NoSession

AuthResponse(kind, us, st, token) ==
    [kind |-> kind, users |-> us, store |-> st, token |-> token]

\* new User(req.body) followed by save(): the role is the body's when it has
\* one, the schema default otherwise; save() rejects a role outside the enum
\* and a body that fails another validator or a unique index.
NewUser(body) ==
    [role |-> IF body.role = Absent THEN "User" ELSE body.role, tokens |-> <<>>]
Validates(body) == body.valid /\ body.role \in Roles \cup {Absent}

signupUser(us, st, nid, body, t) ==
    IF ~Validates(body) THEN AuthResponse("BadRequest", us, st, NoToken)
    ELSE LET g == generateAuthToken([us EXCEPT ![nid] = NewUser(body)], nid, t)
         IN  AuthResponse("Created", g.users, st, g.token)

\* loginUser: x is the user the email names, ok whether the password matches.
findByCredentials(us, x, ok) == UserExists(us, x) /\ ok
loginUser(us, st, x, ok, t) ==
    IF ~findByCredentials(us, x, ok) THEN AuthResponse("BadRequest", us, st, NoToken)
    ELSE LET g == generateAuthToken(us, x, t)
         IN  AuthResponse("Ok", g.users, st, g.token)

logoutUser(us, st, req) ==
    AuthResponse("Ok",
        [us EXCEPT ![req.user].tokens = SelectSeq(@, LAMBDA e : e # req.token)],
        st, NoToken)

logoutAllUser(us, st, req) ==
    AuthResponse("Ok", [us EXCEPT ![req.user].tokens = <<>>], st, NoToken)

createUserByAdmin(us, st, req, nid, body) ==
    IF ~authIsAdmin(us, req.user) THEN AuthResponse("Forbidden", us, st, NoToken)
    ELSE IF ~Validates(body) THEN AuthResponse("BadRequest", us, st, NoToken)
    ELSE AuthResponse("Created", [us EXCEPT ![nid] = NewUser(body)], st, NoToken)

\* userSchema.pre('remove'): Todo.deleteMany({ owner: user._id })
userPreRemove(st, x) ==
    [i \in TaskIds |-> IF Exists(st, i) /\ st[i].owner = x THEN NoTask ELSE st[i]]
\* The operations userSchema registers middleware for.
UserMiddleware == {"save", "remove"}
\* User.findByIdAndDelete(id): a findOneAndDelete query, which runs the
\* middleware registered for 'findOneAndDelete' and no other.
UserFindByIdAndDelete(us, st, id) ==
    IF ~UserExists(us, id) THEN [found |-> FALSE, users |-> us, store |-> st]
    ELSE [found |-> TRUE,
          users |-> [us EXCEPT ![id] = GoneUser],
          store |-> IF "findOneAndDelete" \in UserMiddleware
                    THEN userPreRemove(st, id) ELSE st]

\* A string that is no ObjectId.
NotAnId == "zz"
deleteUserByAdmin(us, st, req, id) ==
    IF ~authIsAdmin(us, req.user) THEN AuthResponse("Forbidden", us, st, NoToken)
    ELSE IF id = NotAnId THEN AuthResponse("BadRequest", us, st, NoToken)
    ELSE IF req.user = id THEN AuthResponse("BadRequest", us, st, NoToken)
    ELSE LET d == UserFindByIdAndDelete(us, st, id)
         IN  IF ~d.found THEN AuthResponse("NotFound", us, st, NoToken)
             ELSE AuthResponse("Ok", d.users, d.store, NoToken)

\* What the last account request was: the operation, the authenticated
\* user (Null on a public route or a 401) and the kind of response.
LastAuth(op, who, kind) ==
    [op |-> op, who |-> who, id |-> NullId, kind |-> kind, removed |-> {}]

InitAuth ==
    /\ store = [id \in TaskIds |-> NoTask]
    /\ nextId = 1
    /\ last = LastAuth("none", Null, "none")
    /\ teams = [t \in TeamIds |-> NoTeam]
    /\ teamOf = [id \in TaskIds |-> NullId]
    /\ calls = {}
    /\ users = UsersAtStart
    /\ now = 0

\* The tokens a client can send: one the server signed at some second up to
\* now (a client keeps what it was given), a forged one, or none.
Presentable ==
    {jwtSign(x, r, i) : x \in Accounts, r \in Roles, i \in 0..now}
      \cup {NoToken, ForgedToken}
SignupBodies == [role : {Absent, "User", "Admin", "Owner"}, valid : BOOLEAN]
FreshUsers == {x \in NewUsers : users[x] = NoUser}
RECURSIVE Sessions(_, _)
Sessions(us, xs) ==
    IF xs = {} THEN 0
    ELSE LET x == CHOOSE y \in xs : TRUE
         IN  Len(us[x].tokens) + Sessions(us, xs \ {x})
RoomFor(us) == Sessions(us, Accounts) < MaxSessions

Tick ==
    /\ now < MaxClock
    /\ now' = now + 1
    /\ UNCHANGED <<store, nextId, last, teams, teamOf, calls, users>>

Signup ==
    \E nid \in FreshUsers, body \in SignupBodies :
        /\ RoomFor(users)
        /\ LET r == signupUser(users, store, nid, body, now)
           IN  /\ users' = r.users
               /\ last' = LastAuth("signup", Null, r.kind)
               /\ UNCHANGED <<store, nextId, teams, teamOf, calls, now>>

Login ==
    \E x \in Accounts, ok \in BOOLEAN :
        /\ RoomFor(users)
        /\ LET r == loginUser(users, store, x, ok, now)
           IN  /\ users' = r.users
               /\ last' = LastAuth("login", Null, r.kind)
               /\ UNCHANGED <<store, nextId, teams, teamOf, calls, now>>

\* A protected route: the 401 of protect, or the handler on (req.user,
\* req.token).
Protected(op, token, r) ==
    LET req == protect(users, token)
    IN  IF req.kind # "Ok"
        THEN /\ last' = LastAuth(op, Null, req.kind)
             /\ UNCHANGED <<store, users>>
        ELSE /\ users' = r.users
             /\ store' = r.store
             /\ last' = LastAuth(op, req.user, r.kind)

Logout ==
    \E token \in Presentable :
        /\ Protected("logout", token, logoutUser(users, store, protect(users, token)))
        /\ UNCHANGED <<nextId, teams, teamOf, calls, now>>

LogoutAll ==
    \E token \in Presentable :
        /\ Protected("logoutAll", token, logoutAllUser(users, store, protect(users, token)))
        /\ UNCHANGED <<nextId, teams, teamOf, calls, now>>

CreateUserByAdmin ==
    \E token \in Presentable, nid \in FreshUsers, body \in SignupBodies :
        /\ Protected("createUser", token,
                     createUserByAdmin(users, store, protect(users, token), nid, body))
        /\ UNCHANGED <<nextId, teams, teamOf, calls, now>>

DeleteUserByAdmin ==
    \E token \in Presentable, id \in Accounts \cup {NotAnId} :
        /\ Protected("deleteUser", token,
                     deleteUserByAdmin(users, store, protect(users, token), id))
        /\ UNCHANGED <<nextId, teams, teamOf, calls, now>>

\* POST /tasks behind protect, by user u, with a text and nothing else: the
\* new task is the requester's.
CreateOwnTask ==
    \E token \in Presentable :
        LET req == protect(users, token)
            body == [text |-> TRUE, parentTask |-> AbsentRef, owner |-> Absent]
        IN  /\ nextId <= MaxTasks
            /\ req.kind = "Ok"
            /\ req.user = "u"
            /\ LET r == createTask(store, nextId, req.user, body)
               IN  /\ store' = r.store
                   /\ nextId' = r.nextId
                   /\ last' = LastAuth("create", req.user, r.kind)
            /\ UNCHANGED others

NextAuth ==
    \/ Tick
    \/ Signup
    \/ Login
    \/ Logout
    \/ LogoutAll
    \/ CreateUserByAdmin
    \/ DeleteUserByAdmin
    \/ CreateOwnTask

SpecAuth == InitAuth /\ [][NextAuth]_vars

(***************************************************************************)
(* deleteTask one store call at a time.  The hook and the removal are      *)
(* separate awaited calls on the collection, and the event loop runs       *)
(* other requests between them.  A delete in flight is the chain of the    *)
(* findOneAndDelete calls it has entered, innermost first: for each, the   *)
(* filter and the children its hook found that the loop has still to       *)
(* delete.                                                                 *)
(***************************************************************************)
Frame(f, childTasks) == [f |-> f, kids |-> childTasks]
\* Entering findOneAndDelete(f): the hook's Todo.find, one store call.
Enter(st, f) == Frame(f, ChildTasks(st, f._id, QueryOwner(f)))
\* The filter deleteTask passes for the requester.
DeleteFilter(requester, id) ==
    IF isAdmin(requester) THEN Filter(id, NoKey) ELSE Filter(id, requester)

\* The outcome of one store call of a delete: the collection, the chain and
\* the document removed, if any.
Stepped(st, stack, doc) == [store |-> st, stack |-> stack, doc |-> doc]

\* A hook that runs its Todo.find again when the loop is over and goes
\* round the loop for the children found meanwhile.
stepDelete_Requeries(st, stack) ==
    LET top == Head(stack)
        owner == QueryOwner(top.f)
        found == TodoFindOne(st, top.f._id, top.f.owner)
        again == ChildTasks(st, top.f._id, owner)
    IN  IF top.kids # {}
        THEN LET child == CHOOSE c \in top.kids : \A d \in top.kids : c <= d
             IN  Stepped(st, <<Enter(st, Filter(child, owner)),
                               Frame(top.f, top.kids \ {child})>> \o Tail(stack), NullId)
        ELSE IF again # {} THEN Stepped(st, <<Frame(top.f, again)>> \o Tail(stack), NullId)
        ELSE IF found = NullId THEN Stepped(st, Tail(stack), NullId)
        ELSE Stepped([st EXCEPT ![found] = NoTask], Tail(stack), found)

\* The next store call of the innermost findOneAndDelete: while the loop has
\* a child left, findOneAndDelete of that child is entered; when it has
\* none, next() runs the removal of the document matching the filter, with
\* the collection as it is by then.
stepDelete(st, stack) ==
    LET top == Head(stack)
        owner == QueryOwner(top.f)
        found == TodoFindOne(st, top.f._id, top.f.owner)
    IN  IF top.kids # {}
        THEN LET child == CHOOSE c \in top.kids : \A d \in top.kids : c <= d
             IN  Stepped(st, <<Enter(st, Filter(child, owner)),
                               Frame(top.f, top.kids \ {child})>> \o Tail(stack), NullId)
        ELSE IF found = NullId THEN Stepped(st, Tail(stack), NullId)
        ELSE Stepped([st EXCEPT ![found] = NoTask], Tail(stack), found)

\* A request in flight: the operation, the requester, the id of the URL,
\* the chain of calls entered and the ids removed so far.
DeleteCall(who, id, stack, removed) ==
    [op |-> "delete", who |-> who, id |-> id, stack |-> stack, removed |-> removed]

\* The users whose requests interleave.
Racers == {"u", "v"}
\* POST /tasks with a text and a parent or none; the task is the creator's.
RaceBodies == [text : {TRUE}, parentTask : {AbsentRef} \cup LowerRefs, owner : {Absent}]

RaceCreateTask ==
    \E creator \in Racers, body \in RaceBodies :
        /\ nextId <= MaxTasks
        /\ LET r == createTask(store, nextId, creator, body)
           IN  /\ store' = r.store
               /\ nextId' = r.nextId
               /\ last' = Last("create", creator, nextId, r.kind, store, r.store)
               /\ UNCHANGED others

\* DELETE /tasks/:id arrives and enters the outermost findOneAndDelete.
BeginDelete ==
    \E requester \in UserIds, id \in TaskIds :
        /\ calls = {}
        /\ calls' = {DeleteCall(requester, id,
                                <<Enter(store, DeleteFilter(requester, id))>>, {})}
        /\ UNCHANGED <<store, nextId, last, teams, teamOf, users, now>>

\* The delete in flight makes its next store call; when the outermost
\* findOneAndDelete returns, deleteTask answers 404 or 200.
StepDelete ==
    \E c \in calls :
        LET r == stepDelete(store, c.stack)
            removed == c.removed \cup ({r.doc} \ {NullId})
        IN  /\ store' = r.store
            /\ IF r.stack = <<>>
               THEN /\ calls' = {}
                    /\ last' = [op |-> "delete", who |-> c.who, id |-> c.id,
                                kind |-> IF r.doc = NullId THEN "NotFound" ELSE "Ok",
                                removed |-> removed]
               ELSE /\ calls' = {DeleteCall(c.who, c.id, r.stack, removed)}
                    /\ UNCHANGED last
            /\ UNCHANGED <<nextId, teams, teamOf, users, now>>

NextDeleteRace ==
    \/ RaceCreateTask
    \/ BeginDelete
    \/ StepDelete

SpecDeleteRace == Init /\ [][NextDeleteRace]_vars

(***************************************************************************)
(* updateTask in its two parts: the checks (the fetch of the task and the  *)
(* upward walk, which only read the collection) and task.save(), an        *)
(* awaited store call of its own.  Between the two the event loop runs     *)
(* other requests.                                                         *)
(***************************************************************************)
\* Updates that can be between their checks and their save at one time.
MaxCalls == 2

\* A request between its checks and its save: the requester, the id of the
\* URL, the body, the task document as it was fetched, and whether another
\* request has written the collection since the checks (stale).
UpdateCall(who, id, body, doc, stale) ==
    [op |-> "update", who |-> who, id |-> id, body |-> body, doc |-> doc, stale |-> stale]

\* task.save() of a document fetched as doc: the paths the forEach changed
\* are written into the stored document, the others are left as they are
\* in the store; a document that is gone makes save() throw (400).
Modified(c) ==
    LET d == ApplyUpdates(c.doc, c.who, c.body)
    IN  {p \in {"parentTask", "owner"} :
            IF p = "owner" THEN d.owner # c.doc.owner ELSE d.parentTask # c.doc.parentTask}
Saved(st, c) ==
    LET d == ApplyUpdates(c.doc, c.who, c.body)
    IN  [st EXCEPT ![c.id] =
            [owner |-> IF "owner" \in Modified(c) THEN d.owner ELSE st[c.id].owner,
             parentTask |-> IF "parentTask" \in Modified(c) THEN d.parentTask
                            ELSE st[c.id].parentTask]]

\* A save that walks up from the new parent once more and refuses a cycle.
saveUpdate_Rewalks(st, nid, c) ==
    IF Modified(c) # {} /\ ~Exists(st, c.id)
      THEN Response("BadRequest", NoBody, st, nid)
    ELSE IF Modified(c) = {}
      THEN Response("Ok", Populate(st, c.id), st, nid)
    ELSE IF WalkUp(st, TodoFindById(st, CastObjectId(c.body.parentTask)), c.id, {}) # "accept"
      THEN Response("CycleError", NoBody, st, nid)
    ELSE Response("Ok", Populate(Saved(st, c), c.id), Saved(st, c), nid)

\* await task.save() and the populated response (lines 218-228).
saveUpdate(st, nid, c) ==
    IF Modified(c) # {} /\ ~Exists(st, c.id)
      THEN Response("BadRequest", NoBody, st, nid)
    ELSE IF Modified(c) = {}
      THEN Response("Ok", Populate(st, c.id), st, nid)
    ELSE Response("Ok", Populate(Saved(st, c), c.id), Saved(st, c), nid)

\* PATCH /tasks/:id with a parentTask (null or an issued id) and no other key.
RaceUpdateBodies == [parentTask : LowerRefs, owner : {Absent}, notAField : {FALSE}]

\* The checks of updateTask.  They leave the collection as it is, so they
\* answer what updateTask answers on this collection; when no check
\* answers, the request goes on to its save.
BeginUpdate ==
    \E requester \in {"u"}, id \in TaskIds, body \in RaceUpdateBodies :
        LET r == updateTask(store, nextId, requester, id, body)
        IN  /\ Cardinality(calls) < MaxCalls
            /\ IF r.kind = "Ok"
               THEN /\ calls' = calls \cup {UpdateCall(requester, id, body, store[id], FALSE)}
                    /\ UNCHANGED last
               ELSE /\ last' = Last("update", requester, id, r.kind, store, store)
                    /\ UNCHANGED calls
            /\ UNCHANGED <<store, nextId, teams, teamOf, users, now>>

\* One of the requests in flight saves and answers; the others have now
\* checked a collection that is no longer the one in the store.
SaveUpdate ==
    \E c \in calls :
        LET r == saveUpdate(store, nextId, c)
        IN  /\ store' = r.store
            /\ calls' = {UpdateCall(d.who, d.id, d.body, d.doc, d.stale \/ r.store # store) :
                           d \in calls \ {c}}
            /\ last' = [op |-> "update", who |-> c.who, id |-> c.id, kind |-> r.kind,
                        removed |-> {}, stale |-> c.stale]
            /\ UNCHANGED <<nextId, teams, teamOf, users, now>>

NextUpdateRace ==
    \/ RaceCreateTask
    \/ BeginUpdate
    \/ SaveUpdate

SpecUpdateRace == Init /\ [][NextUpdateRace]_vars

(***************************************************************************)
(* The parent relation                                                     *)
(***************************************************************************)
\* The document parentTask points at, NullId when there is none.
ParentOf(st, id) ==
    IF Exists(st, id) THEN TodoFindById(st, st[id].parentTask) ELSE NullId

RECURSIVE Upward(_, _, _)
Upward(st, ids, n) ==
    IF n = 0 THEN ids
    ELSE Upward(st, ids \cup ({ParentOf(st, i) : i \in ids} \ {NullId}), n - 1)

\* The documents reached from id by following parentTask one or more times.
Ancestors(st, id) == Upward(st, {ParentOf(st, id)} \ {NullId}, MaxTasks)
Descendants(st, id) == {d \in TaskIds : Exists(st, d) /\ id \in Ancestors(st, d)}
Acyclic(st) == \A id \in TaskIds : id \notin Ancestors(st, id)

NonAdmins == {x \in UserIds : ~isAdmin(x)}
Admins == {x \in UserIds : isAdmin(x)}
Authorized(st, who, id) == Exists(st, id) /\ (isAdmin(who) \/ st[id].owner = who)
OnlyParent(ref) == [parentTask |-> ref, owner |-> Absent, notAField |-> FALSE]
Removed(st, st2) == {i \in TaskIds : Exists(st, i) /\ ~Exists(st2, i)}
Without(st, id) == [st EXCEPT ![id] = NoTask]
Answer(r) == [kind |-> r.kind, body |-> r.body]
GoneForAll(st, ids) ==
    \A x \in ids : /\ ~Exists(st, x)
                   /\ \A p \in UserIds : getTaskById(st, nextId, p, x).kind = "NotFound"

\* The documents a delete of id scoped to owner enumerates below id: those
\* joined to id by a chain of documents of that owner.
RECURSIVE ScopedDown(_, _, _, _)
ScopedDown(st, ids, owner, n) ==
    IF n = 0 THEN ids
    ELSE ScopedDown(st,
                    ids \cup {c \in TaskIds : Exists(st, c) /\ st[c].owner = owner
                                                /\ st[c].parentTask \in ids},
                    owner, n - 1)
ScopedDescendants(st, id, owner) == ScopedDown(st, {id}, owner, MaxTasks) \ {id}

(***************************************************************************)
(* Properties                                                              *)
(***************************************************************************)

C2_UserCascade ==
    \A U \in NonAdmins, R \in TaskIds :
      (Exists(store, R) /\ store[R].owner = U
         /\ \A d \in Descendants(store, R) : store[d].owner = U) =>
        LET r == deleteTask(store, nextId, U, R)
        IN  /\ r.kind = "Ok"
            /\ r.body = RawDoc(store, R)
            /\ GoneForAll(r.store, {R} \cup Descendants(store, R))

\* A regular user's delete removed a task with two descendants.
C2_Witness ==
    /\ last.op = "delete" /\ last.who \in NonAdmins /\ last.kind = "Ok"
    /\ last.id \in last.removed /\ Cardinality(last.removed) = 3

\* C3: an administrator's delete of R removes R and every descendant of R,
\* whoever owns them.
C3_AdminCascade ==
    \A A \in Admins, R \in TaskIds :
      Exists(store, R) =>
        LET r == deleteTask(store, nextId, A, R)
        IN  r.kind = "Ok" /\ GoneForAll(r.store, {R} \cup Descendants(store, R))

\* C4: a create, update or delete issued by a regular user leaves every
\* document of another owner as it was and produces no document of another
\* owner.
C4_OwnershipScoped ==
    [][(last'.op \in {"create", "update", "delete"} /\ last'.who \in NonAdmins) =>
         \A id \in TaskIds :
           ((Exists(store, id) /\ store[id].owner # last'.who)
              \/ (Exists(store', id) /\ store'[id].owner # last'.who)) =>
             store'[id] = store[id]]_vars

\* A regular user's delete removed a task under which another owner's
\* child stays.
C4_Witness ==
    /\ last.op = "delete" /\ last.who \in NonAdmins /\ last.kind = "Ok"
    /\ \E c \in TaskIds : /\ Exists(store, c) /\ store[c].parentTask = last.id
                          /\ store[c].owner # last.who

\* C5: the list a regular user gets holds exactly the documents that user
\* owns, each once; an administrator's list holds every document.
C5_Visibility ==
    \A who \in UserIds :
      LET list == getTasks(store, who)
          ids == {list[i]._id : i \in 1..Len(list)}
      IN  /\ Len(list) = Cardinality(ids)
          /\ \A i \in 1..Len(list) : list[i] = Populate(store, list[i]._id)
          /\ ids = IF isAdmin(who) THEN {id \in TaskIds : Exists(store, id)}
                   ELSE {id \in TaskIds : Exists(store, id) /\ store[id].owner = who}

\* A regular user listed while the store held a task of theirs and one of
\* another owner.
C5_Witness ==
    /\ last.op = "list" /\ last.who \in NonAdmins
    /\ \E i, j \in TaskIds : /\ Exists(store, i) /\ store[i].owner = last.who
                             /\ Exists(store, j) /\ store[j].owner # last.who

\* C6: a regular user's create stores owner = the creator whatever the body
\* says; an administrator's create stores the owner the body names when it
\* is a user, fails with InvalidOwner and inserts nothing when it is not,
\* and stores the administrator when the body names none.
C6_OwnerResolution ==
    nextId <= MaxTasks =>
      \A creator \in UserIds, body \in CreateBodies :
        LET r == createTask(store, nextId, creator, body)
            named == Truthy(body.owner)
        IN  /\ (isAdmin(creator) /\ named /\ body.owner \notin UserIds) =>
                 r.kind = "InvalidOwner" /\ r.store = store /\ r.nextId = nextId
            /\ (body.text /\ ~(isAdmin(creator) /\ named /\ body.owner \notin UserIds)) =>
                 /\ r.kind = "Created"
                 /\ r.store[nextId].owner =
                      IF isAdmin(creator) /\ named THEN body.owner ELSE creator
                 /\ \A id \in TaskIds \ {nextId} : r.store[id] = store[id]
            /\ r.kind # "Created" => r.store = store

\* An administrator's create was answered InvalidOwner.
C6_Witness ==
    last.op = "create" /\ isAdmin(last.who) /\ last.kind = "InvalidOwner"

\* C7: an authorized update of T whose keys are all allowed and whose
\* parentTask is T's own id is answered SelfParentError, and no document
\* is its own parent.
C7_NoSelfParent ==
    /\ \A T \in TaskIds : Exists(store, T) => store[T].parentTask # T
    /\ \A T \in TaskIds, who \in UserIds : \A body \in UpdateBodies(T) :
         (Authorized(store, who, T) /\ ~body.notAField
            /\ TruthyRef(body.parentTask) /\ CastObjectId(body.parentTask) = T) =>
           updateTask(store, nextId, who, T, body).kind = "SelfParentError"

\* C8: an update whose body has a key outside the allow-list is answered
\* InvalidUpdate and the store stays as it was, allowed keys in the body
\* notwithstanding.
C8_AllowList ==
    \A who \in UserIds, id \in TaskIds : \A body \in UpdateBodies(id) :
      body.notAField =>
        LET r == updateTask(store, nextId, who, id, body)
        IN  r.kind = "InvalidUpdate" /\ r.store = store

\* An update of a task the requester may change was answered InvalidUpdate.
C8_Witness ==
    /\ last.op = "update" /\ last.kind = "InvalidUpdate"
    /\ Authorized(store, last.who, last.id)

\* C9: for a regular user U, get, update (allowed keys) and delete on the id
\* of another owner's document are answered NotFound, as they are when the
\* document is not there; and U's get, update and delete requests are
\* answered the same in two stores that differ in a document U does not own.
C9_ExistenceNotLeaked ==
    \A U \in NonAdmins, X \in TaskIds :
      (Exists(store, X) /\ store[X].owner # U) =>
        /\ getTaskById(store, nextId, U, X).kind = "NotFound"
        /\ deleteTask(store, nextId, U, X).kind = "NotFound"
        /\ \A body \in UpdateBodies(X) :
             ~body.notAField => updateTask(store, nextId, U, X, body).kind = "NotFound"
        /\ \A Y \in TaskIds :
             /\ Answer(getTaskById(store, nextId, U, Y))
                  = Answer(getTaskById(Without(store, X), nextId, U, Y))
             /\ Answer(deleteTask(store, nextId, U, Y))
                  = Answer(deleteTask(Without(store, X), nextId, U, Y))
             /\ \A body \in UpdateBodies(Y) :
                  Answer(updateTask(store, nextId, U, Y, body))
                    = Answer(updateTask(Without(store, X), nextId, U, Y, body))

\* C10: after a delete answered with the deleted document, no document left
\* in the store has a parentTask that names a document the delete removed.
C10_NoOrphans ==
    \A who \in UserIds, id \in TaskIds :
      LET r == deleteTask(store, nextId, who, id)
      IN  r.kind = "Ok" =>
            \A x \in TaskIds :
              Exists(r.store, x) => r.store[x].parentTask \notin Removed(store, r.store)

\* C11: a create whose body names as parentTask an id that is the _id of no
\* document in the store is answered ParentNotFound and inserts nothing.
C11_ParentMustExistOnCreate ==
    nextId <= MaxTasks =>
      \A creator \in UserIds, body \in CreateBodies :
        (body.text /\ body.owner # GhostUser /\ TruthyRef(body.parentTask)
           /\ ~Exists(store, CastObjectId(body.parentTask))) =>
          LET r == createTask(store, nextId, creator, body)
          IN  r.kind = "ParentNotFound" /\ r.store = store /\ r.nextId = nextId

\* C12: every document's owner is a user; an administrator's update whose
\* body sets owner to an id that is the _id of no user leaves the stored
\* owner a user.
C12_OwnerExists ==
    /\ \A id \in TaskIds : Exists(store, id) => store[id].owner \in UserIds
    /\ \A A \in Admins, T \in TaskIds :
         Exists(store, T) =>
           LET body == [parentTask |-> AbsentRef, owner |-> GhostUser, notAField |-> FALSE]
               r == updateTask(store, nextId, A, T, body)
           IN  r.store[T].owner \in UserIds

\* C13: on a store whose parent relation is a forest, an authorized update
\* of T that proposes a parent P other than T is answered CycleError exactly
\* when T is above P on P's chain of parentTask pointers; otherwise the
\* walk ends at a document without a parent and P is stored as T's parent.
C13_CycleGuardDecision ==
    Acyclic(store) =>
      \A T, P \in TaskIds, who \in UserIds, sp \in Spellings :
        (P \in Issued /\ P # T /\ Authorized(store, who, T)) =>
          LET r == updateTask(store, nextId, who, T, OnlyParent(HexRef(P, sp)))
          IN  /\ r.kind = "CycleError" <=> T \in Ancestors(store, P)
              /\ r.kind = "CycleError" => r.store = store
              /\ r.kind # "CycleError" =>
                    /\ r.kind = "Ok"
                    /\ r.store = [store EXCEPT ![T].parentTask = P]

\* An update was accepted whose proposed parent has a parent of its own.
C13_Witness ==
    /\ last.op = "update" /\ last.kind = "Ok"
    /\ Exists(store, last.id)
    /\ ParentOf(store, last.id) # NullId
    /\ ParentOf(store, ParentOf(store, last.id)) # NullId

\* C14: an update that sets parentTask is always answered; when the chain
\* above the proposed parent P closes a cycle that does not pass through
\* the updated task T, the answer is CycleError.
C14_CycleGuardTerminates ==
    \A T, P \in TaskIds, who \in UserIds, sp \in Spellings :
      (Authorized(store, who, T) /\ Exists(store, P) /\ P # T) =>
        LET r == updateTask(store, nextId, who, T, OnlyParent(HexRef(P, sp)))
        IN  /\ r.kind # "NoResponse"
            /\ (P \in Ancestors(store, P) /\ T \notin Ancestors(store, P)) =>
                  r.kind = "CycleError"

\* C15: when a store call fails while the cascade of a delete of R by its
\* owner is at a descendant d, the request is answered with a failure, R
\* and the documents between d and R are still in the store, and a second
\* delete of R that meets no failure returns R and removes R and every
\* descendant in scope that is left, ending in the store an unfailing
\* delete would have produced.
C15_FailureMidCascade ==
    \A U \in NonAdmins, R, d \in TaskIds, stage \in Stages :
      (Exists(store, R) /\ store[R].owner = U /\ d \in ScopedDescendants(store, R, U)) =>
        LET r1 == deleteTaskOn(store, nextId, U, R, Fault(d, stage))
            r2 == deleteTask(r1.store, nextId, U, R)
        IN  /\ r1.kind = "ServerError"
            /\ \A x \in {R, d} \cup (Ancestors(store, d) \cap Descendants(store, R)) :
                 r1.store[x] = store[x]
            /\ Removed(store, r1.store) \subseteq ScopedDescendants(store, R, U)
            /\ r2.kind = "Ok" /\ r2.body = RawDoc(store, R)
            /\ Removed(r1.store, r2.store) = {R} \cup ScopedDescendants(r1.store, R, U)
            /\ r2.store = deleteTask(store, nextId, U, R).store

\* A delete by the owner of the task ended in a failure after it had
\* removed a descendant; the task is still there.
C15_Witness ==
    /\ last.op = "delete" /\ last.kind = "ServerError" /\ last.removed # {}
    /\ Exists(store, last.id) /\ store[last.id].owner = last.who

C17_OwnerChangeDropped ==
    /\ [](\A U \in NonAdmins, T \in TaskIds, body \in OwnerBodies :
             (Exists(store, T) /\ store[T].owner = U) =>
               LET r == updateTask(store, nextId, U, T, body)
                   r0 == updateTask(store, nextId, U, T, [body EXCEPT !.owner = Absent])
                   P == CastObjectId(body.parentTask)
               IN  /\ Answer(r) = Answer(r0) /\ r.store = r0.store
                   /\ r.kind \in {"Ok", "SelfParentError", "CycleError"}
                   /\ (P # T /\ T \notin Ancestors(store, P)) => r.kind = "Ok"
                   /\ r.kind = "Ok" =>
                         /\ r.store[T].owner = U
                         /\ r.store[T].parentTask =
                              IF "parentTask" \in Keys(body) THEN P ELSE store[T].parentTask
                         /\ \A x \in TaskIds \ {T} : r.store[x] = store[x])
    /\ [][\A id \in TaskIds :
             (Exists(store, id) /\ Exists(store', id) /\ store'[id].owner # store[id].owner)
               => (last'.op = "update" /\ isAdmin(last'.who) /\ last'.id = id)]_vars

\* A regular user's update naming an owner was answered Ok and gave the
\* user's task a parent created after it.
C17_Witness ==
    /\ last.op = "update" /\ last.who \in NonAdmins /\ last.kind = "Ok"
    /\ store[last.id].owner = last.who
    /\ store[last.id].parentTask > last.id

\* C18: an update of an id that is not in the store or not in the
\* requester's scope is answered NotFound whatever the body, a body with a
\* key outside the allow-list included; InvalidUpdate is the answer only
\* for a document the requester may see.
C18_FetchBeforeAllowList ==
    \A who \in UserIds, id \in TaskIds : \A body \in UpdateBodies(id) :
      LET r == updateTask(store, nextId, who, id, body)
      IN  /\ ~Authorized(store, who, id) => r.kind = "NotFound"
          /\ r.kind = "InvalidUpdate" => Authorized(store, who, id)

\* C19: after an update answered Ok whose body sets parentTask to an id,
\* the stored parentTask of the updated document names a document that is
\* in the store; a proposed parentTask that names no document of the store
\* is not stored.
C19_ParentMustExistAfterUpdate ==
    \A who \in UserIds, T, P \in TaskIds, sp \in Spellings :
      (Authorized(store, who, T) /\ P \in Issued) =>
        LET r == updateTask(store, nextId, who, T, OnlyParent(HexRef(P, sp)))
        IN  /\ r.kind = "Ok" => Exists(r.store, r.store[T].parentTask)
            /\ ~Exists(store, P) => r.store[T].parentTask # P

\* C20: in the list any requester gets, a document comes before another
\* when its stored parentTask is smaller (none before any id) or when both
\* have the same parentTask and it was created first; so every document
\* without a parentTask precedes every document with one, and the children
\* of one parent appear in creation order.
C20_ListOrdering ==
    \A who \in UserIds :
      LET list == getTasks(store, who)
          parent(i) == store[list[i]._id].parentTask
      IN  \A i, j \in 1..Len(list) :
            i < j =>
              /\ parent(i) <= parent(j)
              /\ parent(i) = parent(j) => list[i]._id < list[j]._id
              /\ parent(j) = NullId => parent(i) = NullId

\* A requester listed a store in which a task without a parent was created
\* after a child task, both in the requester's list.
C20_Witness ==
    /\ last.op = "list"
    /\ \E c, t \in TaskIds :
         /\ c < t
         /\ Exists(store, c) /\ store[c].parentTask # NullId
         /\ Exists(store, t) /\ store[t].parentTask = NullId
         /\ \A x \in {c, t} : isAdmin(last.who) \/ store[x].owner = last.who

\* C24: a delete answered NotFound removes no document: the store after it
\* is the store before it, documents whose parentTask is the id of the
\* request and whose owner is the requester included.
C24_NotFoundChangesNothing ==
    \A who \in UserIds, id \in TaskIds :
      LET r == deleteTask(store, nextId, who, id)
      IN  r.kind = "NotFound" => r.store = store

\* C26: an update answered SelfParentError or CycleError leaves every
\* document as it was, the owner and the other fields the body carries
\* included.
C26_RejectedUpdateAppliesNothing ==
    \A who \in UserIds, id \in TaskIds, sp \in Spellings, P \in TaskIds,
       owner \in {Absent, "v", GhostUser} :
      LET body == [parentTask |-> HexRef(P, sp), owner |-> owner, notAField |-> FALSE]
          r == updateTask(store, nextId, who, id, body)
      IN  /\ r.kind \in {"SelfParentError", "CycleError"} => r.store = store
          /\ (Authorized(store, who, id) /\ (P = id \/ id \in Ancestors(store, P))) =>
                r.kind \in {"SelfParentError", "CycleError"}

\* An update naming an owner and a parent below the task was answered
\* CycleError.
C26_Witness ==
    /\ last.op = "update" /\ last.kind = "CycleError"
    /\ Exists(store, last.id) /\ Descendants(store, last.id) # {}

\* C27: a delete is always answered, with the document, NotFound or a
\* failure, on a store whose parentTask pointers close a cycle among
\* documents of the requester too.
C27_CascadeTerminates ==
    \A who \in UserIds, id \in TaskIds :
      deleteTask(store, nextId, who, id).kind \in {"Ok", "NotFound", "ServerError"}

\* C21: for a team that exists, the team list an administrator or a member
\* gets holds exactly the documents whose team is that team or whose owner
\* is a member, each once; a regular user who is no member gets Forbidden
\* and no document.
C21_TeamListing ==
    \A who \in UserIds, T \in TeamIds :
      teams[T] # NoTeam =>
        LET r == getTasksForTeam(store, teamOf, teams, who, T)
            ids == {r.list[i]._id : i \in 1..Len(r.list)}
        IN  IF isAdmin(who) \/ who \in teams[T]
              THEN /\ r.kind = "Ok"
                   /\ Len(r.list) = Cardinality(ids)
                   /\ \A i \in 1..Len(r.list) : r.list[i] = Populate(store, r.list[i]._id)
                   /\ ids = {id \in TaskIds :
                               Exists(store, id)
                                 /\ (teamOf[id] = T \/ store[id].owner \in teams[T])}
              ELSE r.kind = "Forbidden" /\ r.list = <<>>

\* A member of the team listed it while the store held a task of another
\* member without the team, a task of the team owned by a non-member and a
\* task that is neither.
C21_Witness ==
    /\ last.op = "teamlist" /\ last.kind = "Ok" /\ last.who \in NonAdmins
    /\ \E i, j, k \in TaskIds :
         /\ Exists(store, i) /\ store[i].owner \in teams[last.id] \ {last.who}
         /\ teamOf[i] # last.id
         /\ Exists(store, j) /\ store[j].owner \notin teams[last.id] /\ teamOf[j] = last.id
         /\ Exists(store, k) /\ store[k].owner \notin teams[last.id] /\ teamOf[k] # last.id

\* C25: whenever a delete has removed a document, every child of that
\* document in the scope of the delete (any owner for an administrator,
\* the requester's own for a regular user) has been removed before it: no
\* removed document has a child in scope left in the store.
C25_ChildrenBeforeParent ==
    \A who \in UserIds, id \in TaskIds :
      LET r == deleteTask(store, nextId, who, id)
      IN  \A x \in Removed(store, r.store), c \in TaskIds :
            (Exists(store, c) /\ store[c].parentTask = x
               /\ (isAdmin(who) \/ store[c].owner = who)) => ~Exists(r.store, c)

\* C28: every user that signupUser creates has the role 'User', whatever the
\* body of the request holds (a role of 'Admin' included), and an account
\* becomes an administrator only in a createUserByAdmin request made by a
\* user who is an administrator.
C28_SignupNeverGrantsAdmin ==
    /\ [](\A nid \in NewUsers, body \in SignupBodies :
            LET r == signupUser(users, store, nid, body, now)
            IN  r.kind = "Created" => r.users[nid].role = "User")
    /\ [][\A x \in Accounts :
            (~authIsAdmin(users, x) /\ authIsAdmin(users', x))
               => (last'.op = "createUser" /\ authIsAdmin(users, last'.who))]_vars

\* C29: when deleteUserByAdmin answers 200 for user X, X is gone and no task
\* owned by X is left in the store; and no task in the store has an owner
\* that is not a user.
C29_UserDeleteRemovesTasks ==
    /\ \A token \in Presentable, x \in Accounts :
         LET req == protect(users, token)
         IN  (req.kind = "Ok" /\ deleteUserByAdmin(users, store, req, x).kind = "Ok")
               => LET r == deleteUserByAdmin(users, store, req, x)
                  IN  /\ ~UserExists(r.users, x)
                      /\ \A i \in TaskIds : Exists(r.store, i) => r.store[i].owner # x
    /\ \A i \in TaskIds : Exists(store, i) => UserExists(users, store[i].owner)

\* C30: protect authenticates a token exactly when the token is in the
\* tokens list of an existing user; logoutUser takes the presented token out
\* of the requester's list and leaves every other token of every user in
\* place; logoutAllUser empties the requester's list and no other; and a
\* token that was taken out does not authenticate again, whatever request
\* follows (here: the same user logging in again).
C30_TokenSessions ==
    \A token \in Presentable :
      LET req == protect(users, token)
      IN  /\ (req.kind = "Ok") <=>
                (\E x \in Accounts : UserExists(users, x) /\ token \in Range(users[x].tokens))
          /\ req.kind = "Ok" =>
               LET out == logoutUser(users, store, req)
                   all == logoutAllUser(users, store, req)
                   again == loginUser(out.users, store, req.user, TRUE, now)
               IN  /\ protect(out.users, token).kind # "Ok"
                   /\ \A x \in Accounts : \A t \in Range(users[x].tokens) :
                        (UserExists(users, x) /\ t # token)
                           => protect(out.users, t).kind = "Ok"
                   /\ \A x \in Accounts : \A t \in Range(users[x].tokens) :
                        UserExists(users, x)
                           => ((protect(all.users, t).kind = "Ok") <=> (x # req.user))
                   /\ protect(again.users, token).kind # "Ok"

\* C22: a delete in flight neither locks nor looks again.  While a
\* findOneAndDelete call for a document N is entered (N's children have been
\* enumerated, N is not yet removed), a create with parentTask = N is
\* answered 201 and stores a child of N; and when the loop of that call is
\* over, the next store call removes N and nothing else, whatever children
\* N has by then, so that a child created meanwhile stays in the store
\* under the removed N.
C22_OrphanRace ==
    \A c \in calls :
      LET top == Head(c.stack)
          N == top.f._id
          r == stepDelete(store, c.stack)
      IN  /\ (top.kids = {} /\ TodoFindOne(store, N, top.f.owner) # NullId)
               => /\ ~Exists(r.store, N)
                  /\ \A x \in TaskIds \ {N} : r.store[x] = store[x]
          /\ \A i \in 1..Len(c.stack), creator \in Racers, body \in RaceBodies :
               LET M == c.stack[i].f._id
                   made == createTask(store, nextId, creator, body)
               IN  (nextId <= MaxTasks /\ Exists(store, M) /\ body.parentTask = HexRef(M, "lower"))
                     => /\ made.kind = "Created"
                        /\ made.store[nextId].parentTask = M

\* A user's delete has just answered 200 and a task of that user is in the
\* store whose parentTask is a document this delete removed.
C22_Witness ==
    /\ calls = {}
    /\ last.op = "delete" /\ last.kind = "Ok" /\ last.who \in NonAdmins
    /\ \E x \in TaskIds :
         /\ Exists(store, x)
         /\ store[x].owner = last.who
         /\ store[x].parentTask \in last.removed

\* C23: the save of an update does not look at the tree again.  For every
\* update that has passed its checks, the save answers 200 and stores the
\* parentTask of the body whatever the collection has become since; and a
\* step makes the parent relation cyclic only when it is the save of an
\* update whose checks ran before another request wrote the collection, so
\* that updates that do not interleave keep it acyclic.
C23_CycleRace ==
    /\ [](\A c \in calls :
            LET r == saveUpdate(store, nextId, c)
            IN  "parentTask" \in Modified(c)
                  => /\ r.kind = "Ok"
                     /\ r.store[c.id].parentTask = CastObjectId(c.body.parentTask))
    /\ [][(Acyclic(store) /\ ~Acyclic(store'))
            => (last'.op = "update" /\ last'.kind = "Ok" /\ last'.stale)]_vars

\* Two updates have both been answered 200 and the parent relation of the
\* store has a cycle.
C23_Witness ==
    /\ calls = {}
    /\ last.op = "update" /\ last.kind = "Ok"
    /\ ~Acyclic(store)
====
